---- MODULE Spec2Model ----
(***************************************************************************)
(* Model of the Baidu-OCR batch harness.                                   *)
(*                                                                         *)
(*   Spec       BaiduOCRBatchProcessor driving BaiduOCRProcessor and       *)
(*              BaiduOCRClient from a ThreadPoolExecutor                   *)
(*              (baidu_ocr_batch_processor.py, baidu_ocr_integration.py).  *)
(*   SpecRetry  RetryFailedFiles.process_with_retry, sequential            *)
(*              (retry_failed_files.py).                                   *)
(*                                                                         *)
(* Python executes "self.x += 1" as a load of self.x, an add and a store   *)
(* of self.x; the interpreter may switch threads between the load and the  *)
(* store, so worker increments are two steps.                              *)
(***************************************************************************)
EXTENDS Integers, Sequences, FiniteSets, TLC

\* ------------------------------------------------------------------ bounds

\* Largest number of files in the input directory.
MaxFiles == 2
\* Largest max_workers handed to process_batch.
MaxWorkers == 2
\* Largest reading of the clock in Spec.
MaxTime == 1
\* Largest number of process_batch calls on one BaiduOCRBatchProcessor.
MaxBatches == 2
\* Largest max_retries handed to process_with_retry.
MaxRetriesBound == 4

\* --------------------------------------------------------- program constants

\* "- 300" in _get_access_token: the token is taken to expire 5 minutes early.
TokenMargin == 300
\* result.get('expires_in', 3600)
DefaultExpiresIn == 3600
\* process_with_retry(..., max_retries: int = 3)
DefaultMaxRetries == 3

\* ------------------------------------------------------------------- files

\* A file name is a stem and an extension (the part after the last dot).
\* Stems are numbered; extensions are listed in their ASCII order, which is
\* the order sorted() gives names of one stem.
ExtOrder == <<"JPG", "Jpg", "jpg", "png", "txt">>

File(s, e) == [stem |-> s, ext |-> e]

FileUniverse ==
    { File(1, "jpg"), File(1, "png"), File(2, "JPG"), File(2, "Jpg"), File(2, "txt") }

Directories == { d \in SUBSET FileUniverse : Cardinality(d) <= MaxFiles }

\* The extensions get_image_files looks for, in the order of its list.
ImageExts == <<"jpg", "jpeg", "png", "bmp", "tiff">>

\* str.upper() on the extensions of the list.
Upper(e) ==
    CASE e = "jpg" -> "JPG" [] e = "jpeg" -> "JPEG" [] e = "png" -> "PNG"
      [] e = "bmp" -> "BMP" [] e = "tiff" -> "TIFF" [] OTHER -> e

ExtRank(e) == CHOOSE i \in 1..Len(ExtOrder) : ExtOrder[i] = e

\* The sort key of a path: names compare by stem, then by extension.
FileKey(f) == f.stem * (Len(ExtOrder) + 1) + ExtRank(f.ext)

RECURSIVE SetToSortedSeq(_)
SetToSortedSeq(S) ==
    IF S = {} THEN <<>>
    ELSE LET m == CHOOSE x \in S : \A y \in S : FileKey(x) <= FileKey(y)
         IN  <<m>> \o SetToSortedSeq(S \ {m})

\* Path.glob("*" + ext): the files whose name ends in ext, matched with the
\* case of the pattern.
Glob(d, e) == SetToSortedSeq({ f \in d : f.ext = e })

RECURSIVE GlobAll(_, _)
GlobAll(d, i) ==
    IF i > Len(ImageExts) THEN <<>>
    ELSE Glob(d, ImageExts[i]) \o Glob(d, Upper(ImageExts[i])) \o GlobAll(d, i + 1)

\* sorted() of a list: a stable insertion sort that keeps duplicates.
RECURSIVE Insert(_, _)
Insert(f, s) ==
    IF s = <<>> THEN <<f>>
    ELSE IF FileKey(f) < FileKey(Head(s)) THEN <<f>> \o s
    ELSE <<Head(s)>> \o Insert(f, Tail(s))

RECURSIVE Sorted(_)
Sorted(s) == IF s = <<>> THEN <<>> ELSE Insert(Head(s), Sorted(Tail(s)))

get_image_files(d) == Sorted(GlobAll(d, 1))

\* Path(image_file).stem, then Path(output_dir) / (stem + "_baidu.md"): the
\* artifact path keeps the stem and drops the extension.
OutputFile(f) == [stem |-> f.stem, suffix |-> "_baidu.md"]

\* retry_failed_files: Path(output_dir) / (stem + "_baidu_retry.md").
RetryOutputFile(f) == [stem |-> f.stem, suffix |-> "_baidu_retry.md"]

output_files_of(files) == [i \in 1..Len(files) |-> OutputFile(files[i])]

\* ------------------------------------------------------------------- state

VARIABLES
    \* the file system
    dir,             \* the files of the input directory
    out_fs,          \* artifact path -> the image whose content it holds
    \* BaiduOCRClient
    access_token,    \* self.access_token
    token_expires,   \* self.token_expires
    now,             \* time.time()
    \* BaiduOCRBatchProcessor and process_batch
    b_pc,            \* where the orchestrating thread is
    batches,         \* process_batch calls that returned
    max_workers,     \* the pool size of the running call
    image_files,     \* the discovered images, sorted
    output_files,    \* the artifact path of each image
    fut,             \* the future of each task
    results,         \* the list the orchestrating thread appends to
    processed_count, \* self.processed_count
    success_count,   \* self.success_count
    failed_count,    \* self.failed_count
    final_stats,     \* what process_batch returned last
    snapshot,        \* the last progress line process_batch printed
    \* the pool's worker threads
    w_pc,            \* where each worker is
    w_task,          \* the task it runs (0: none)
    w_ok,            \* what process_single_image returned to it
    w_reg,           \* the counter value it loaded for "+= 1"
    w_content,       \* the artifact content it read back
    \* RetryFailedFiles.process_with_retry
    r_pc,            \* where the call is
    max_retries,     \* its max_retries argument
    r_image,         \* its image_file argument
    attempt,         \* the loop variable
    delays,          \* the delays slept, in order
    att_kinds,       \* how each attempt ended, in order
    r_result,        \* the returned dict
    stats,           \* self.stats
    \* what happened, kept for the properties
    task_class,      \* how the process_single_image call of each task ended
    task_calls,      \* the process_single_image calls made for each task
    prev_stats,      \* what the process_batch call before the last returned
    \* a call of convert_to_markdown or convert_table_to_markdown
    c_pc,            \* where the call is
    c_input,         \* the OCR result it is given
    c_output,        \* the text it returned
    \* a run of an entry point (main.py or the batch processor's main)
    e_pc,            \* where the run is
    e_input,         \* the command line and what the stages will do
    e_stages,        \* the stages started, in order
    e_stats,         \* what its process_batch call returned
    e_exit,          \* how the process ended
    \* RetryFailedFiles.retry_failed_files
    rf_pc,           \* where the call is
    rf_names,        \* its failed_files argument
    rf_i,            \* the position of its loop in failed_files
    rf_results,      \* its results list
    rf_exit,         \* how it ended
    \* AllFailedFilesProcessor.check_and_fix_image
    x_pc,            \* where the call is
    x_img,           \* the image at image_path
    x_w,             \* current_width (the width of temp_img)
    x_h,             \* current_height
    x_quality,       \* the quality of the next save
    x_out,           \* the file at output_path
    x_probe,         \* the file at temp_path + '.temp2', which the while tests
    x_stats,         \* self.stats: size_fixed, format_fixed, errors
    x_result         \* what the call returned

fs_vars    == <<dir, out_fs>>
tok_vars   == <<access_token, token_expires>>
batch_vars == <<b_pc, batches, max_workers, image_files, output_files, fut, results,
                processed_count, success_count, failed_count, final_stats, snapshot>>
w_vars     == <<w_pc, w_task, w_ok, w_reg, w_content>>
retry_vars == <<r_pc, max_retries, r_image, attempt, delays, att_kinds, r_result, stats>>
hist_vars  == <<task_class, task_calls, prev_stats>>
conv_vars  == <<c_pc, c_input, c_output>>
main_vars  == <<e_pc, e_input, e_stages, e_stats, e_exit>>
files_vars == <<rf_pc, rf_names, rf_i, rf_results, rf_exit>>
fix_vars   == <<x_pc, x_img, x_w, x_h, x_quality, x_out, x_probe, x_stats, x_result>>
other_vars == <<conv_vars, main_vars, files_vars, fix_vars>>
vars       == <<fs_vars, tok_vars, now, batch_vars, w_vars, retry_vars, hist_vars,
                other_vars>>

NoToken  == "None"

\* "if self.processed_count % 10 == 0": the interval of the progress lines.
SnapshotEvery == 10

\* No progress line printed yet.
NoSnapshot == [processed |-> 0, success |-> 0, failed |-> 0]
NoFile   == [stem |-> 0, ext |-> "None"]
NoResult == [returned |-> "nothing"]

Workers == 1..MaxWorkers
Paths   == { OutputFile(f) : f \in FileUniverse } \cup { RetryOutputFile(f) : f \in FileUniverse }

\* ------------------------------------------------------ the remote service

\* What the token endpoint answers: a token with its expires_in, a body
\* without access_token, or a failed connection.
TokenResponses ==
    { [kind |-> "token", expires_in |-> e] : e \in {TokenMargin, DefaultExpiresIn} }
    \cup { [kind |-> "no_token", expires_in |-> 0], [kind |-> "transport", expires_in |-> 0] }

\* What a recognition request ends in: words that convert to non-empty
\* content, no words, an error_code (the QPS limit, or another), or a failed
\* connection.
PostResponses == { "words", "empty", "qps_limit", "remote_error", "transport" }

\* _ensure_token_valid's condition for a refresh.
TokenInvalid_NoExpiry(tok, exp, t) == tok = NoToken
TokenInvalid(tok, exp, t) == tok = NoToken \/ t > exp

\* _get_access_token's assignment on a response that carries a token.
ExpiryFor(t, resp) == t + resp.expires_in - TokenMargin

\* How a process_single_image call that got to the request ends, by the
\* response and by whether the artifact could be written: the result and the
\* exception it printed and swallowed.
KindOfPost(resp, writable) ==
    CASE resp = "words"        -> IF writable THEN "ok" ELSE "write_error"
      [] resp = "empty"        -> "empty_content"
      [] resp = "qps_limit"    -> "rate_limit"
      [] resp = "remote_error" -> "remote_error"
      [] resp = "transport"    -> "transport_error"

\* The failures spec section 7 calls transient, and the class of each kind.
TransientKinds == {"auth_error", "rate_limit", "transport_error"}

KindClass(kind) ==
    CASE kind = "ok"              -> "ok"
      [] kind = "auth_error"      -> "auth"
      [] kind \in TransientKinds -> "transient"
      [] kind = "empty_content"   -> "empty"
      [] OTHER                    -> "other"

\* process_single_image returns True exactly when it wrote the artifact.
\* (BaiduOCRProcessor's own processed_count, success_count and failed_count,
\* which it also updates, are read by nothing on these paths and are left out.)
ReturnsTrue(kind) == kind = "ok"

\* ----------------------------------------------------------- process_batch

Queued    == [state |-> "queued"]
Running   == [state |-> "running"]
Done(r)   == [state |-> "done", result |-> r]
Collected == [state |-> "collected"]

\* The dict process_single_image_safe returns (processing_time left out;
\* char_count and word_count are those of `content`, the artifact as read
\* back, and 0 for NoFile).
Outcome(ok, i, content, err) ==
    [success |-> ok, image_file |-> image_files[i], output_file |-> output_files[i],
     content |-> content, error |-> err]

\* The dict process_batch returns: kind "no_images" is
\* {'success': False, 'message': ...}, which has no other key; kind "stats"
\* is final_stats (the timing fields left out).
NoStats == [kind |-> "none"]
NoImages == [kind |-> "no_images", success |-> FALSE]
\* (success_count / total) * 100 as "{:.1f}" prints it, in tenths of a percent:
\* rounded to the nearest tenth, a tie to the even one.
SuccessRateTenths(s, n) ==
    LET q == (1000 * s) \div n
        r == (1000 * s) % n
    IN  IF 2 * r > n THEN q + 1
        ELSE IF 2 * r = n THEN q + (q % 2)
        ELSE q

FinalStats ==
    [kind |-> "stats",
     total_files |-> Len(image_files),
     processed_files |-> processed_count,
     success_count |-> success_count,
     failed_count |-> failed_count,
     success_rate |-> SuccessRateTenths(success_count, Len(image_files)),
     results |-> results]

\* No conversion call and no entry point runs.
NoInput == [kind |-> "none"]

ConvOff ==
    /\ c_pc = "off"
    /\ c_input = NoInput
    /\ c_output = <<>>

MainOff ==
    /\ e_pc = "off"
    /\ e_input = NoInput
    /\ e_stages = <<>>
    /\ e_stats = NoStats
    /\ e_exit = "running"

FilesOff ==
    /\ rf_pc = "off"
    /\ rf_names = <<>>
    /\ rf_i = 0
    /\ rf_results = <<>>
    /\ rf_exit = "running"

\* What check_and_fix_image has not returned yet.
NoFixResult == [ok |-> FALSE, msg |-> "none"]

\* No image handed to check_and_fix_image.
NoImage == [openable |-> FALSE, width |-> 0, height |-> 0, oversize |-> FALSE,
            format |-> "None", jpeg_ok |-> FALSE]

\* No check_and_fix_image call runs.
FixOff ==
    /\ x_pc = "off"
    /\ x_img = NoImage
    /\ x_w = 0
    /\ x_h = 0
    /\ x_quality = 0
    /\ x_out = "absent"
    /\ x_probe = "absent"
    /\ x_stats = [size_fixed |-> 0, format_fixed |-> 0, errors |-> 0]
    /\ x_result = NoFixResult

IdleWorkers == [w \in Workers |-> "idle"]

Init ==
    /\ dir \in Directories
    /\ out_fs = [p \in Paths |-> NoFile]
    /\ access_token = NoToken
    /\ token_expires = 0
    /\ now = 0
    /\ b_pc = "new"
    /\ batches = 0
    /\ max_workers = 0
    /\ image_files = <<>>
    /\ output_files = <<>>
    /\ fut = <<>>
    /\ results = <<>>
    /\ processed_count = 0
    /\ success_count = 0
    /\ failed_count = 0
    /\ final_stats = NoStats
    /\ snapshot = NoSnapshot
    /\ w_pc = IdleWorkers
    /\ w_task = [w \in Workers |-> 0]
    /\ w_ok = [w \in Workers |-> FALSE]
    /\ w_reg = [w \in Workers |-> 0]
    /\ w_content = [w \in Workers |-> NoFile]
    /\ r_pc = "off"
    /\ max_retries = 0
    /\ r_image = NoFile
    /\ attempt = 0
    /\ delays = <<>>
    /\ att_kinds = <<>>
    /\ r_result = NoResult
    /\ stats = [total_processed |-> 0, success_count |-> 0, failed_count |-> 0]
    /\ task_class = <<>>
    /\ task_calls = <<>>
    /\ prev_stats = NoStats
    /\ ConvOff
    /\ MainOff
    /\ FilesOff
    /\ FixOff

\* time.time() moves on between any two steps.
Tick ==
    /\ now < MaxTime
    /\ now' = now + 1
    /\ UNCHANGED <<hist_vars, other_vars, fs_vars, tok_vars, batch_vars, w_vars, retry_vars>>

\* BaiduOCRBatchProcessor.__init__: BaiduOCRProcessor.__init__ builds the
\* BaiduOCRClient, whose __init__ requests a token and raises without one;
\* then the counters are set to 0.
Construct ==
    /\ b_pc = "new"
    /\ \E resp \in TokenResponses :
         IF resp.kind = "token"
         THEN /\ access_token' = "token"
              /\ token_expires' = ExpiryFor(now, resp)
              /\ b_pc' = "ready"
         ELSE /\ UNCHANGED tok_vars
              /\ b_pc' = "ctor_failed"
    /\ results' = <<>>
    /\ processed_count' = 0
    /\ success_count' = 0
    /\ failed_count' = 0
    /\ UNCHANGED <<hist_vars, other_vars, fs_vars, now, batches, max_workers, image_files, output_files, fut,
                   final_stats, snapshot, w_vars, retry_vars>>

\* process_batch up to the end of the submit loop: enumerate, return the
\* failure dict when nothing is found, derive the artifact paths, submit one
\* task per image.
Submit(mw) ==
    /\ b_pc \in {"ready", "returned"}
    /\ batches < MaxBatches
    /\ LET files == get_image_files(dir) IN
       IF files = <<>>
       THEN /\ final_stats' = NoImages
            /\ prev_stats' = final_stats
            /\ b_pc' = "returned"
            /\ batches' = batches + 1
            /\ UNCHANGED <<max_workers, image_files, output_files, fut, results,
                           task_class, task_calls>>
       ELSE /\ image_files' = files
            /\ output_files' = output_files_of(files)
            /\ fut' = [i \in 1..Len(files) |-> Queued]
            /\ task_class' = [i \in 1..Len(files) |-> "none"]
            /\ task_calls' = [i \in 1..Len(files) |-> 0]
            /\ results' = <<>>
            /\ max_workers' = mw
            /\ b_pc' = "collect"
            /\ UNCHANGED <<final_stats, batches, prev_stats>>
    /\ UNCHANGED <<other_vars, fs_vars, tok_vars, now, processed_count, success_count, failed_count,
                   snapshot, w_vars, retry_vars>>

\* The progress line: the three counters as the orchestrating thread reads
\* them once processed_count is a multiple of SnapshotEvery.
Progress(p, sc, fc) == [processed |-> p, success |-> sc, failed |-> fc]

\* One round of "for future in as_completed(futures)": take a completed
\* future, append its result, count it, and print the progress line every
\* SnapshotEvery results.
Collect(i) ==
    /\ b_pc = "collect"
    /\ i \in 1..Len(fut)
    /\ fut[i].state = "done"
    /\ results' = Append(results, fut[i].result)
    /\ processed_count' = processed_count + 1
    /\ snapshot' = IF (processed_count + 1) % SnapshotEvery = 0
                   THEN Progress(processed_count + 1, success_count, failed_count)
                   ELSE snapshot
    /\ fut' = [fut EXCEPT ![i] = Collected]
    /\ UNCHANGED <<hist_vars, other_vars, fs_vars, tok_vars, now, b_pc, batches, max_workers, image_files,
                   output_files, success_count, failed_count, final_stats, w_vars,
                   retry_vars>>

\* The end of the with block and the final statistics.
Return ==
    /\ b_pc = "collect"
    /\ \A i \in 1..Len(fut) : fut[i].state = "collected"
    /\ final_stats' = FinalStats
    /\ prev_stats' = final_stats
    /\ b_pc' = "returned"
    /\ batches' = batches + 1
    /\ UNCHANGED <<task_class, task_calls, other_vars, fs_vars, tok_vars, now, max_workers, image_files, output_files, fut,
                   results, processed_count, success_count, failed_count, snapshot, w_vars,
                   retry_vars>>

\* ------------------------------------------------- the pool's worker threads

GenericError == "BaiduOCR processing failed"

QueuedTasks_WithRunning == { i \in 1..Len(fut) : fut[i].state \in {"queued", "running"} }
QueuedTasks == { i \in 1..Len(fut) : fut[i].state = "queued" }

\* A free thread of the pool takes the oldest queued task and enters
\* process_single_image_safe.
WorkerStart(w) ==
    /\ b_pc = "collect"
    /\ w <= max_workers
    /\ w_pc[w] = "idle"
    /\ QueuedTasks # {}
    /\ LET i == CHOOSE j \in QueuedTasks : \A k \in QueuedTasks : j <= k IN
       /\ w_task' = [w_task EXCEPT ![w] = i]
       /\ fut' = [fut EXCEPT ![i] = Running]
    /\ w_pc' = [w_pc EXCEPT ![w] = "call"]
    /\ UNCHANGED <<hist_vars, other_vars, fs_vars, tok_vars, now, b_pc, batches, max_workers, image_files,
                   output_files, results, processed_count, success_count, failed_count,
                   final_stats, snapshot, w_ok, w_reg, w_content, retry_vars>>

\* process_single_image -> accurate_text_ocr: open and read the image (an
\* IOError ends the call with False), then _make_request ->
\* _ensure_token_valid, which starts a token request when the token is absent
\* or past its expiry.
WorkerCall(w) ==
    /\ w_pc[w] = "call"
    /\ \E readable \in BOOLEAN :
         IF ~readable
         THEN /\ w_ok' = [w_ok EXCEPT ![w] = FALSE]
              /\ w_pc' = [w_pc EXCEPT ![w] = "load"]
              /\ task_class' = [task_class EXCEPT ![w_task[w]] = KindClass("io_error")]
         ELSE /\ w_pc' = [w_pc EXCEPT ![w] =
                     IF TokenInvalid(access_token, token_expires, now)
                     THEN "refreshing" ELSE "post"]
              /\ UNCHANGED <<w_ok, task_class>>
    /\ task_calls' = [task_calls EXCEPT ![w_task[w]] = @ + 1]
    /\ UNCHANGED <<prev_stats, other_vars, fs_vars, tok_vars, now, batch_vars, w_task, w_reg,
                   w_content, retry_vars>>

\* What _get_access_token leaves in access_token and token_expires: the new
\* token and its expiry when the response carries one, what was there
\* otherwise (it raises before any assignment).
TokenAfterRefresh_Cleared(tok, exp, t, resp) ==
    IF resp.kind = "token" THEN <<"token", ExpiryFor(t, resp)>> ELSE <<NoToken, 0>>
TokenAfterRefresh(tok, exp, t, resp) ==
    IF resp.kind = "token" THEN <<"token", ExpiryFor(t, resp)>> ELSE <<tok, exp>>

\* _get_access_token in a worker: the token endpoint answers; a token is
\* stored with its expiry, anything else is raised and process_single_image
\* returns False.
WorkerRefresh(w) ==
    /\ w_pc[w] = "refreshing"
    /\ \E resp \in TokenResponses :
         /\ access_token' = TokenAfterRefresh(access_token, token_expires, now, resp)[1]
         /\ token_expires' = TokenAfterRefresh(access_token, token_expires, now, resp)[2]
         /\ IF resp.kind = "token"
            THEN /\ w_pc' = [w_pc EXCEPT ![w] = "post"]
                 /\ UNCHANGED <<w_ok, task_class>>
            ELSE
              /\ w_ok' = [w_ok EXCEPT ![w] = FALSE]
              /\ w_pc' = [w_pc EXCEPT ![w] = "load"]
              /\ task_class' = [task_class EXCEPT ![w_task[w]] =
                     KindClass(IF resp.kind = "no_token" THEN "auth_error"
                               ELSE "transport_error")]
    /\ UNCHANGED <<task_calls, prev_stats, other_vars, fs_vars, now, batch_vars, w_task,
                   w_reg, w_content, retry_vars>>

\* The recognition request and the rest of process_single_image: the content
\* is written to the artifact path when it is not empty.
WorkerPost(w) ==
    /\ w_pc[w] = "post"
    /\ \E resp \in PostResponses, writable \in BOOLEAN :
         LET ok == ReturnsTrue(KindOfPost(resp, writable)) IN
         /\ out_fs' = IF ok
                      THEN [out_fs EXCEPT ![output_files[w_task[w]]] = image_files[w_task[w]]]
                      ELSE out_fs
         /\ w_ok' = [w_ok EXCEPT ![w] = ok]
         /\ w_pc' = [w_pc EXCEPT ![w] = IF ok THEN "readback" ELSE "load"]
         /\ task_class' = [task_class EXCEPT ![w_task[w]] =
                KindClass(KindOfPost(resp, writable))]
    /\ UNCHANGED <<task_calls, prev_stats, other_vars, dir, tok_vars, now, batch_vars, w_task,
                   w_reg, w_content, retry_vars>>

\* process_single_image_safe on success: read the artifact back.
WorkerReadBack(w) ==
    /\ w_pc[w] = "readback"
    /\ w_content' = [w_content EXCEPT ![w] = out_fs[output_files[w_task[w]]]]
    /\ w_pc' = [w_pc EXCEPT ![w] = "load"]
    /\ UNCHANGED <<hist_vars, other_vars, fs_vars, tok_vars, now, batch_vars, w_task, w_ok, w_reg, retry_vars>>

\* The load of "self.success_count += 1" or "self.failed_count += 1".
WorkerLoad(w) ==
    /\ w_pc[w] = "load"
    /\ w_reg' = [w_reg EXCEPT ![w] = IF w_ok[w] THEN success_count ELSE failed_count]
    /\ w_pc' = [w_pc EXCEPT ![w] = "store"]
    /\ UNCHANGED <<hist_vars, other_vars, fs_vars, tok_vars, now, batch_vars, w_task, w_ok, w_content,
                   retry_vars>>

\* The store of the increment, and the return of the outcome, which
\* completes the future.  (The except branch of process_single_image_safe is
\* not reached: process_single_image raises nothing.)
WorkerStore(w) ==
    /\ w_pc[w] = "store"
    /\ success_count' = IF w_ok[w] THEN w_reg[w] + 1 ELSE success_count
    /\ failed_count' = IF w_ok[w] THEN failed_count ELSE w_reg[w] + 1
    /\ fut' = [fut EXCEPT ![w_task[w]] =
                 Done(IF w_ok[w]
                      THEN Outcome(TRUE, w_task[w], w_content[w], "None")
                      ELSE Outcome(FALSE, w_task[w], NoFile, GenericError))]
    /\ w_pc' = [w_pc EXCEPT ![w] = "idle"]
    /\ w_task' = [w_task EXCEPT ![w] = 0]
    /\ w_content' = [w_content EXCEPT ![w] = NoFile]
    /\ w_ok' = [w_ok EXCEPT ![w] = FALSE]
    /\ w_reg' = [w_reg EXCEPT ![w] = 0]
    /\ UNCHANGED <<hist_vars, other_vars, fs_vars, tok_vars, now, b_pc, batches, max_workers, image_files,
                   output_files, results, processed_count, final_stats, snapshot, retry_vars>>

WorkerStep(w) ==
    \/ WorkerStart(w)
    \/ WorkerCall(w)
    \/ WorkerRefresh(w)
    \/ WorkerPost(w)
    \/ WorkerReadBack(w)
    \/ WorkerLoad(w)
    \/ WorkerStore(w)

Next ==
    \/ Tick
    \/ Construct
    \/ \E mw \in 1..MaxWorkers : Submit(mw)
    \/ \E i \in 1..MaxFiles : Collect(i)
    \/ Return
    \/ \E w \in Workers : WorkerStep(w)

Spec == Init /\ [][Next]_vars

\* -------------------------------------------------------- process_with_retry

\* How one process_single_image call ends when nothing else runs: the image
\* is opened, the token is checked at time t and refreshed if need be, the
\* request is sent.
SingleImageKind(readable, tresp, presp, writable, tok, exp, t) ==
    IF ~readable THEN "io_error"
    ELSE IF TokenInvalid(tok, exp, t) /\ tresp.kind = "no_token" THEN "auth_error"
    ELSE IF TokenInvalid(tok, exp, t) /\ tresp.kind = "transport" THEN "transport_error"
    ELSE KindOfPost(presp, writable)

\* Whether that call stored a new token.
SingleImageRefreshes(readable, tresp, tok, exp, t) ==
    readable /\ TokenInvalid(tok, exp, t) /\ tresp.kind = "token"

\* process_single_image catches Exception whatever was raised and returns
\* False: no exception reaches its caller.
SingleImageRaises(kind) == FALSE

\* str(e) of the exception behind each kind of failure (the text
\* process_single_image prints), and the text of the empty-content warning.
ErrorText(kind) ==
    CASE kind = "io_error"        -> "No such file or directory"
      [] kind = "write_error"     -> "Permission denied"
      [] kind = "auth_error"      -> "token request failed"
      [] kind = "transport_error" -> "connection failed"
      [] kind = "rate_limit"      -> "API error: qps request limit reached"
      [] kind = "remote_error"    -> "API error: other"
      [] kind = "empty_content"   -> "no content"
      [] OTHER                    -> "None"

\* A backoff that grows by a fixed step instead of doubling.
Delay_Linear(a) == 2 * a

\* "delay = 2 ** attempt", slept when attempt > 0.
Delay(a) == 2 ^ a

\* A retries entry that counts the attempts made.
RetriesField_Attempts(a) == a + 1

\* The 'retries' entry of the returned dict.
RetriesField(a) == a

\* Whether the loop goes round again after a failed attempt.
RetryAgain_OffByOne(a, mr) == a < mr
RetryAgain(a, mr) == a < mr - 1

RetryResult(ok, content, err, a) ==
    [returned |-> "dict", success |-> ok, image_file |-> r_image,
     output_file |-> RetryOutputFile(r_image), content |-> content, error |-> err,
     retries |-> RetriesField(a)]

\* The state after RetryFailedFiles.__init__ got its token.
InitRetry ==
    /\ dir \in { d \in Directories : Cardinality(d) = 1 }
    /\ out_fs = [p \in Paths |-> NoFile]
    /\ access_token = "token"
    /\ token_expires \in { ExpiryFor(0, resp) : resp \in { r \in TokenResponses : r.kind = "token" } }
    /\ now = 0
    /\ b_pc = "off"
    /\ batches = 0
    /\ max_workers = 0
    /\ image_files = <<>>
    /\ output_files = <<>>
    /\ fut = <<>>
    /\ results = <<>>
    /\ processed_count = 0
    /\ success_count = 0
    /\ failed_count = 0
    /\ final_stats = NoStats
    /\ snapshot = NoSnapshot
    /\ w_pc = IdleWorkers
    /\ w_task = [w \in Workers |-> 0]
    /\ w_ok = [w \in Workers |-> FALSE]
    /\ w_reg = [w \in Workers |-> 0]
    /\ w_content = [w \in Workers |-> NoFile]
    /\ r_pc = "ready"
    /\ max_retries = 0
    /\ r_image = NoFile
    /\ attempt = 0
    /\ delays = <<>>
    /\ att_kinds = <<>>
    /\ r_result = NoResult
    /\ stats = [total_processed |-> 0, success_count |-> 0, failed_count |-> 0]
    /\ task_class = <<>>
    /\ task_calls = <<>>
    /\ prev_stats = NoStats
    /\ ConvOff
    /\ MainOff
    /\ FilesOff
    /\ FixOff

\* process_with_retry is called on a file of the directory.
RetryCall(f, mr) ==
    /\ r_pc = "ready"
    /\ f \in dir
    /\ r_image' = f
    /\ max_retries' = mr
    /\ attempt' = 0
    /\ r_pc' = "loop"
    /\ UNCHANGED <<hist_vars, other_vars, fs_vars, tok_vars, now, batch_vars, w_vars, delays, att_kinds,
                   r_result, stats>>

\* One round of "for attempt in range(max_retries)": the backoff sleep, the
\* process_single_image call, and what is done with its result.
RetryAttempt ==
    /\ r_pc = "loop"
    /\ attempt < max_retries
    /\ \E readable \in BOOLEAN, tresp \in TokenResponses, presp \in PostResponses,
          writable \in BOOLEAN :
         LET slept  == IF attempt > 0 THEN Delay(attempt) ELSE 0
             t      == now + slept
             kind   == SingleImageKind(readable, tresp, presp, writable, access_token,
                                       token_expires, t)
             raised == SingleImageRaises(kind)
             ok     == ~raised /\ ReturnsTrue(kind)
             path   == RetryOutputFile(r_image)
             fs     == IF ok THEN [out_fs EXCEPT ![path] = r_image] ELSE out_fs
         IN
         /\ now' = t
         /\ delays' = IF attempt > 0 THEN Append(delays, slept) ELSE delays
         /\ att_kinds' = Append(att_kinds, kind)
         /\ IF SingleImageRefreshes(readable, tresp, access_token, token_expires, t)
            THEN /\ access_token' = "token"
                 /\ token_expires' = ExpiryFor(t, tresp)
            ELSE UNCHANGED tok_vars
         /\ out_fs' = fs
         /\ IF ok
            THEN /\ stats' = [stats EXCEPT !.success_count = @ + 1]
                 /\ r_result' = RetryResult(TRUE, fs[path], "None", attempt)
                 /\ r_pc' = "returned"
                 /\ UNCHANGED attempt
            ELSE IF RetryAgain(attempt, max_retries)
            THEN /\ attempt' = attempt + 1
                 /\ UNCHANGED <<r_pc, r_result, stats>>
            ELSE /\ stats' = [stats EXCEPT !.failed_count = @ + 1]
                 /\ r_result' = RetryResult(FALSE, NoFile,
                                   IF raised THEN ErrorText(kind) ELSE GenericError,
                                   attempt)
                 /\ r_pc' = "returned"
                 /\ UNCHANGED attempt
    /\ UNCHANGED <<hist_vars, other_vars, dir, batch_vars, w_vars, max_retries, r_image>>

\* range(max_retries) is empty or used up: the function ends without a
\* return statement.
RetryFallThrough ==
    /\ r_pc = "loop"
    /\ attempt >= max_retries
    /\ r_pc' = "returned"
    /\ r_result' = NoResult
    /\ UNCHANGED <<hist_vars, other_vars, fs_vars, tok_vars, now, batch_vars, w_vars, max_retries, r_image,
                   attempt, delays, att_kinds, stats>>

NextRetry ==
    \/ \E f \in FileUniverse, mr \in 0..MaxRetriesBound : RetryCall(f, mr)
    \/ RetryAttempt
    \/ RetryFallThrough

SpecRetry == InitRetry /\ [][NextRetry]_vars

\* ------------------------------------------------------------------ claims

\* C1: when process_batch returns its summary, success_count + failed_count
\* equals the number of discovered images, whatever the interleaving of the
\* workers (stated for the first call on the object).
C1_CountsSumToTotal ==
    (b_pc = "returned" /\ batches = 1 /\ final_stats.kind = "stats")
        => final_stats.success_count + final_stats.failed_count = final_stats.total_files

\* C2: a step of a worker thread never writes success_count, failed_count or
\* processed_count; only the orchestrating thread does.
C2_OnlyOrchestratorWrites ==
    [][(\E w \in Workers : WorkerStep(w))
          => UNCHANGED <<success_count, failed_count, processed_count>>]_vars

\* C3: the credential refresh is single-flight: at no time are two token
\* requests of two workers under way.
C3_SingleFlightRefresh ==
    Cardinality({ w \in Workers : w_pc[w] = "refreshing" }) <= 1

\* C4: whenever process_batch returns a summary, its results hold exactly one
\* outcome for every discovered image and processed_files equals total_files.
C4_CompleteSummary ==
    (b_pc = "returned" /\ final_stats.kind = "stats")
        => /\ Len(final_stats.results) = final_stats.total_files
           /\ \A i \in 1..Len(image_files) :
                Cardinality({ j \in 1..Len(final_stats.results) :
                                final_stats.results[j].image_file = image_files[i] }) = 1
           /\ final_stats.processed_files = final_stats.total_files

\* C5: two distinct images discovered in one run never get the same artifact
\* path.
C5_UniqueArtifactPaths ==
    \A i, j \in 1..Len(output_files) :
        image_files[i] # image_files[j] => output_files[i] # output_files[j]

RateLimitedThenOk(k) ==
    /\ r_pc = "returned"
    /\ Len(att_kinds) = k + 1
    /\ att_kinds[k + 1] = "ok"
    /\ \A j \in 1..k : att_kinds[j] = "rate_limit"

\* C6: when the first k attempts fail with a rate-limit error and attempt
\* k + 1 succeeds, process_with_retry returns a successful outcome whose
\* retries entry is k, having slept k delays, each longer than the one before.
C6_RetryThenSuccess ==
    \A k \in 0..MaxRetriesBound :
        RateLimitedThenOk(k)
            => /\ r_result.returned = "dict"
               /\ r_result.success
               /\ r_result.retries = k
               /\ Len(delays) = k
               /\ \A j \in 1..(k - 1) : delays[j] < delays[j + 1]

\* The stated case of C6: two rate-limit failures, then success, with the
\* default max_retries.
C6_Witness ==
    /\ max_retries = DefaultMaxRetries
    /\ RateLimitedThenOk(2)
    /\ delays = <<2, 4>>

\* C7: nothing is slept before the first attempt, one delay is slept after
\* each failed attempt that another attempt follows, and the delay after the
\* failed attempt of 0-based index a is base * 2^a, base being the first delay.
C7_BackoffFormula ==
    /\ Len(delays) = IF att_kinds = <<>> THEN 0 ELSE Len(att_kinds) - 1
    /\ \A k \in 1..Len(delays) : delays[k] = delays[1] * 2 ^ (k - 1)

\* Three delays were slept: four attempts were made.
C7_Witness ==
    /\ Len(att_kinds) = 4
    /\ Len(delays) = 3
    /\ delays[3] = 8

\* C8: an attempt that ends in empty content is the last one: no attempt and
\* no backoff sleep follows it.
C8_EmptyContentNotRetried ==
    \A j \in 1..Len(att_kinds) :
        att_kinds[j] = "empty_content" => (j = Len(att_kinds) /\ Len(delays) < j)

\* C9: when every one of the max_retries attempts failed, the returned
\* outcome is a failure whose error is the description of the last underlying
\* error and whose retries entry is the number of attempts made.
C9_ExhaustedOutcome ==
    (r_pc = "returned" /\ max_retries > 0 /\ Len(att_kinds) = max_retries
        /\ att_kinds[max_retries] # "ok")
        => /\ r_result.returned = "dict"
           /\ ~r_result.success
           /\ r_result.error = ErrorText(att_kinds[max_retries])
           /\ r_result.retries = Len(att_kinds)

\* C10: an attempt that fails because the image cannot be read or because
\* the service answers with an application error other than the rate limit
\* is the last one: no attempt and no backoff sleep follows it.
C10_NonTransientOnce ==
    \A j \in 1..Len(att_kinds) :
        att_kinds[j] \in {"io_error", "remote_error"}
            => (j = Len(att_kinds) /\ Len(delays) < j)

\* C11: for a task dispatched by process_batch, a recognition attempt that
\* fails with an auth, rate-limit or transport error is followed by further
\* attempts before the failed outcome is returned.
C11_TransientRetriedInBatch ==
    \A i \in 1..Len(fut) :
        (fut[i].state \in {"done", "collected"} /\ task_class[i] \in {"auth", "transient"})
            => task_calls[i] > 1

\* The outcomes a summary lists, whatever the order of completion.
ResultSet(s) == { s.results[k] : k \in 1..Len(s.results) }

\* C12: two process_batch calls on the same object, over the same directory
\* and with the same outcome for every image, return summaries with the same
\* total_files, processed_files, success_count, failed_count and success_rate.
C12_BatchIdempotent ==
    (/\ b_pc = "returned"
     /\ prev_stats.kind = "stats"
     /\ final_stats.kind = "stats"
     /\ ResultSet(prev_stats) = ResultSet(final_stats))
        => /\ final_stats.total_files = prev_stats.total_files
           /\ final_stats.processed_files = prev_stats.processed_files
           /\ final_stats.success_count = prev_stats.success_count
           /\ final_stats.failed_count = prev_stats.failed_count
           /\ final_stats.success_rate = prev_stats.success_rate

\* ------------------------------------------------- one batch of three images

\* Nothing of the batch processor has run; its thread is at `pc`.
BatchIdle(pc) ==
    /\ out_fs = [p \in Paths |-> NoFile]
    /\ access_token = NoToken
    /\ token_expires = 0
    /\ now = 0
    /\ b_pc = pc
    /\ batches = 0
    /\ max_workers = 0
    /\ image_files = <<>>
    /\ output_files = <<>>
    /\ fut = <<>>
    /\ results = <<>>
    /\ processed_count = 0
    /\ success_count = 0
    /\ failed_count = 0
    /\ final_stats = NoStats
    /\ snapshot = NoSnapshot
    /\ w_pc = IdleWorkers
    /\ w_task = [w \in Workers |-> 0]
    /\ w_ok = [w \in Workers |-> FALSE]
    /\ w_reg = [w \in Workers |-> 0]
    /\ w_content = [w \in Workers |-> NoFile]
    /\ task_class = <<>>
    /\ task_calls = <<>>
    /\ prev_stats = NoStats

\* No process_with_retry call runs.
RetryOff ==
    /\ r_pc = "off"
    /\ max_retries = 0
    /\ r_image = NoFile
    /\ attempt = 0
    /\ delays = <<>>
    /\ att_kinds = <<>>
    /\ r_result = NoResult
    /\ stats = [total_processed |-> 0, success_count |-> 0, failed_count |-> 0]

\* The input directory of the end-to-end scenario: three images.
ThreeImages == {File(1, "jpg"), File(1, "png"), File(2, "JPG")}

InitThree ==
    /\ dir = ThreeImages
    /\ BatchIdle("new")
    /\ RetryOff
    /\ ConvOff
    /\ MainOff
    /\ FilesOff
    /\ FixOff

\* The first process_batch call on a new object.
SubmitFirst(mw) ==
    /\ batches = 0
    /\ Submit(mw)

NextThree ==
    \/ Tick
    \/ Construct
    \/ \E mw \in 1..MaxWorkers : SubmitFirst(mw)
    \/ \E i \in 1..Cardinality(ThreeImages) : Collect(i)
    \/ Return
    \/ \E w \in Workers : WorkerStep(w)

SpecThree == InitThree /\ [][NextThree]_vars

\* The tasks of the running call whose process_single_image call ended in
\* class c.
TasksOfClass(c) == { i \in 1..Len(task_class) : task_class[i] = c }

\* C13: a batch of 3 discovered images, 2 recognised with content and 1 with
\* empty content, returns total_files = 3, success_count = 2,
\* failed_count = 1 and success_rate = 66.7.
C13_SummaryArithmetic ==
    (/\ b_pc = "returned"
     /\ final_stats.kind = "stats"
     /\ Len(image_files) = 3
     /\ Cardinality(TasksOfClass("ok")) = 2
     /\ Cardinality(TasksOfClass("empty")) = 1)
        => /\ final_stats.total_files = 3
           /\ final_stats.success_count = 2
           /\ final_stats.failed_count = 1
           /\ final_stats.success_rate = 667

\* ------------------- convert_to_markdown and convert_table_to_markdown

\* Longest generated words_result list.
MaxWords == 3
\* Longest generated form_result list.
MaxRows == 2
\* "abs(y - last_y) > 20" in convert_to_markdown.
LineThreshold == 20

\* A str is the sequence of its characters.
NL    == "\n"
Space == " "

\* A key of a dict that may be missing: d.get(key, default) and "key in d".
Present(v) == [present |-> TRUE, value |-> v]
Absent(d)  == [present |-> FALSE, value |-> d]
Get(field, default) == IF field.present THEN field.value ELSE default

SeqsUpTo(S, n) == UNION { [1..k -> S] : k \in 0..n }

\* The entries of words_result: 'words' and location 'top', either missing.
WordTexts == { <<Space>>, <<"a">>, <<"b", Space>> }
Tops      == { 20, 41 }
WordInfo(w, t) == [words |-> Present(w), top |-> Present(t)]
WordInfos ==
    { [words |-> w, top |-> t] :
        w \in {Absent(<<>>)} \cup { Present(x) : x \in WordTexts },
        t \in {Absent(0)} \cup { Present(y) : y \in Tops } }

\* Five words at tops 0, 5, 30, 32, 80.
ExampleWords ==
    << WordInfo(<<"a">>, 0), WordInfo(<<"b">>, 5), WordInfo(<<"c">>, 30),
       WordInfo(<<"d">>, 32), WordInfo(<<"e">>, 80) >>

WordLists == SeqsUpTo(WordInfos, MaxWords) \cup {ExampleWords}

\* The entries of form_result: with a 'row' list of cell texts, or without.
Row(cells) == [row |-> Present(cells)]
RowEntries ==
    { [row |-> Absent(<<>>)], Row(<< <<"A">>, <<"B">> >>), Row(<< <<"1">> >>) }

\* The rows [[A,B],[1,2],[3,4]].
ExampleTable ==
    << Row(<< <<"A">>, <<"B">> >>), Row(<< <<"1">>, <<"2">> >>),
       Row(<< <<"3">>, <<"4">> >>) >>

FormLists == SeqsUpTo(RowEntries, MaxRows) \cup {ExampleTable}

\* The form_result lists none of whose entries carries a 'row'.
RowlessForms == { f \in FormLists : \A k \in 1..Len(f) : ~f[k].row.present }

\* The dicts handed to the two functions: every word list with no
\* form_result or one without rows, and every form_result with no
\* words_result, an empty one or the five words (with rows in the table,
\* convert_table_to_markdown does not read words_result).
OcrResults ==
    { [words_result |-> w, form_result |-> f] :
        w \in {Absent(<<>>)} \cup { Present(x) : x \in WordLists },
        f \in {Absent(<<>>)} \cup { Present(x) : x \in RowlessForms } }
    \cup
    { [words_result |-> w, form_result |-> f] :
        w \in {Absent(<<>>), Present(<<>>), Present(ExampleWords)},
        f \in { Present(x) : x \in FormLists } }

\* str.strip(): whitespace removed at both ends.
RECURSIVE lstrip(_)
lstrip(s) ==
    IF s # <<>> /\ Head(s) \in {Space, NL} THEN lstrip(Tail(s)) ELSE s

RECURSIVE rstrip(_)
rstrip(s) ==
    IF s # <<>> /\ s[Len(s)] \in {Space, NL}
    THEN rstrip(SubSeq(s, 1, Len(s) - 1)) ELSE s

strip(s) == rstrip(lstrip(s))

\* sep.join(parts)
RECURSIVE join(_, _)
join(sep, parts) ==
    IF parts = <<>> THEN <<>>
    ELSE IF Len(parts) = 1 THEN parts[1]
    ELSE parts[1] \o sep \o join(sep, Tail(parts))

Abs(x) == IF x < 0 THEN -x ELSE x

\* "last_y is not None and abs(y - last_y) > 20"; last_y is <<>> for None.
NewLine_AtLeast(y, last_y) ==
    last_y # <<>> /\ Abs(y - last_y[1]) >= LineThreshold
NewLine(y, last_y) ==
    last_y # <<>> /\ Abs(y - last_y[1]) > LineThreshold

\* "if current_line.strip(): lines.append(current_line.strip())"
FlushLine_Always(lines, current_line) == Append(lines, strip(current_line))
FlushLine(lines, current_line) ==
    IF strip(current_line) # <<>> THEN Append(lines, strip(current_line))
    ELSE lines

\* The locals of convert_to_markdown after the first k rounds of its loop.
RECURSIVE TextLoop(_, _)
TextLoop(words_result, k) ==
    IF k = 0 THEN [lines |-> <<>>, current_line |-> <<>>, last_y |-> <<>>]
    ELSE LET st   == TextLoop(words_result, k - 1)
             word == Get(words_result[k].words, <<>>)
             y    == Get(words_result[k].top, 0)
         IN  IF NewLine(y, st.last_y)
             THEN [lines        |-> FlushLine(st.lines, st.current_line),
                   current_line |-> word,
                   last_y       |-> <<y>>]
             ELSE [lines        |-> st.lines,
                   current_line |-> st.current_line \o <<Space>> \o word,
                   last_y       |-> <<y>>]

convert_to_markdown(ocr_result) ==
    IF ~ocr_result.words_result.present THEN <<>>
    ELSE LET ws == ocr_result.words_result.value
             st == TextLoop(ws, Len(ws))
         IN  join(<<NL>>, FlushLine(st.lines, st.current_line))

\* '| ' + ' | '.join(cells) + ' |'
PipeRow(cells) ==
    <<"|", Space>> \o join(<<Space, "|", Space>>, cells) \o <<Space, "|">>

\* ['---'] * len(headers)
SeparatorCells(headers) == [i \in 1..Len(headers) |-> <<"-", "-", "-">>]

\* table_data[1:]
DataRows_All(table_data) == table_data
DataRows(table_data) == Tail(table_data)

\* "if 'row' in row: table_data.append(row['row'])"
RECURSIVE TableData(_)
TableData(form_result) ==
    IF form_result = <<>> THEN <<>>
    ELSE LET rest == TableData(Tail(form_result)) IN
         IF Head(form_result).row.present
         THEN <<Head(form_result).row.value>> \o rest
         ELSE rest

\* "if 'form_result' not in table_result: return self.convert_to_markdown(...)"
TableFallback_Empty(table_result) == <<>>
TableFallback(table_result) == convert_to_markdown(table_result)

convert_table_to_markdown(table_result) ==
    IF ~table_result.form_result.present THEN TableFallback(table_result)
    ELSE LET form_result == table_result.form_result.value
             table_data  == TableData(form_result)
             headers     == table_data[1]
             rows        == DataRows(table_data)
         IN  IF form_result = <<>> THEN <<>>
             ELSE IF table_data = <<>> THEN <<>>
             ELSE join(<<NL>>,
                       <<PipeRow(headers), PipeRow(SeparatorCells(headers))>>
                           \o [k \in 1..Len(rows) |-> PipeRow(rows[k])])

\* One of the two functions is handed an OCR result.
InitConvert ==
    /\ dir = {}
    /\ BatchIdle("off")
    /\ RetryOff
    /\ MainOff
    /\ FilesOff
    /\ FixOff
    /\ c_pc = "ready"
    /\ c_input \in OcrResults
    /\ c_output = <<>>

ConvertText ==
    /\ c_pc = "ready"
    /\ c_output' = convert_to_markdown(c_input)
    /\ c_pc' = "text"
    /\ UNCHANGED <<c_input, main_vars, files_vars, fix_vars, hist_vars, fs_vars, tok_vars, now, batch_vars,
                   w_vars, retry_vars>>

ConvertTable ==
    /\ c_pc = "ready"
    /\ c_output' = convert_table_to_markdown(c_input)
    /\ c_pc' = "table"
    /\ UNCHANGED <<c_input, main_vars, files_vars, fix_vars, hist_vars, fs_vars, tok_vars, now, batch_vars,
                   w_vars, retry_vars>>

NextConvert ==
    \/ ConvertText
    \/ ConvertTable

SpecConvert == InitConvert /\ [][NextConvert]_vars

\* str.split('\n') of a non-empty str: the lines of a text.
RECURSIVE SplitLines(_, _)
SplitLines(s, acc) ==
    IF s = <<>> THEN <<acc>>
    ELSE IF Head(s) = NL THEN <<acc>> \o SplitLines(Tail(s), <<>>)
    ELSE SplitLines(Tail(s), Append(acc, Head(s)))

Lines(s) == IF s = <<>> THEN <<>> ELSE SplitLines(s, <<>>)

\* The 'words' and 'top' of the k-th entry of a words_result list.
WordAt(ws, k) == Get(ws[k].words, <<>>)
TopAt(ws, k)  == Get(ws[k].top, 0)

\* The last word of the run of words that starts at s: the words after s up
\* to the first whose top is more than the threshold away from the top of
\* the word before it.
RunEnd(ws, s) ==
    CHOOSE e \in s..Len(ws) :
        /\ \A j \in (s + 1)..e : Abs(TopAt(ws, j) - TopAt(ws, j - 1)) <= 20
        /\ e = Len(ws) \/ Abs(TopAt(ws, e + 1) - TopAt(ws, e)) > 20

\* The words s..e, separated by single spaces, trimmed.
RunText(ws, s, e) == strip(join(<<Space>>, [j \in 1..(e - s + 1) |-> WordAt(ws, s + j - 1)]))

\* The texts of the runs from word s on, in order, the blank ones left out.
RECURSIVE RunLines(_, _)
RunLines(ws, s) ==
    IF s > Len(ws) THEN <<>>
    ELSE LET e == RunEnd(ws, s)
             t == RunText(ws, s, e)
         IN  (IF t = <<>> THEN <<>> ELSE <<t>>) \o RunLines(ws, e + 1)

\* C14: convert_to_markdown puts a word on the line of the word before it,
\* after a space, when their tops differ by at most 20, and on a new line
\* when they differ by more; the words at tops 0, 5, 30, 32, 80 come out as
\* the three lines "a b", "c d", "e".
C14_LineGrouping ==
    (c_pc = "text" /\ c_input.words_result.present)
        => LET ws == c_input.words_result.value IN
           /\ Lines(c_output) = RunLines(ws, 1)
           /\ ws = ExampleWords
                => c_output = <<"a", Space, "b", NL, "c", Space, "d", NL, "e">>

C14_Witness ==
    /\ c_pc = "text"
    /\ c_input.words_result.present
    /\ c_input.words_result.value = ExampleWords
    /\ Len(Lines(c_output)) = 3

\* A word with a character that is not whitespace.
Visible(w) == strip(w) # <<>>

\* C15 as stated: convert_to_markdown returns a non-empty string for every
\* non-empty word list and the empty string for the empty word list.
C15_NonEmptyForNonEmptyList ==
    (c_pc = "text" /\ c_input.words_result.present)
        => LET ws == c_input.words_result.value IN
           /\ ws # <<>> => c_output # <<>>
           /\ ws = <<>> => c_output = <<>>

\* C15 as amended: convert_to_markdown returns a non-empty string exactly
\* when some entry of the word list has a 'words' text with a character that
\* is not whitespace; for the empty list it returns the empty string.
C15_NonEmptyIffVisibleWord ==
    (c_pc = "text" /\ c_input.words_result.present)
        => LET ws == c_input.words_result.value IN
           c_output # <<>> <=> \E k \in 1..Len(ws) : Visible(WordAt(ws, k))

C15_Witness ==
    /\ c_pc = "text"
    /\ c_input.words_result.present
    /\ Len(c_input.words_result.value) = 2
    /\ ~Visible(WordAt(c_input.words_result.value, 1))
    /\ Visible(WordAt(c_input.words_result.value, 2))
    /\ c_output # <<>>

\* The 'row' lists of the entries of a form_result that carry one.
RowsOf(form_result) ==
    LET with_row == SelectSeq(form_result, LAMBDA entry : entry.row.present)
    IN  [k \in 1..Len(with_row) |-> with_row[k].row.value]

\* The '-' characters of a text.
Dashes(s) == Len(SelectSeq(s, LAMBDA c : c = "-"))

\* C16: for a table of n >= 1 rows convert_table_to_markdown returns n + 1
\* lines: the first row pipe-delimited, a separator with one '---' cell per
\* column of the first row, then the other rows pipe-delimited in input
\* order; the rows [[A,B],[1,2],[3,4]] give 4 lines with a 2-cell separator.
C16_TableLines ==
    (c_pc = "table" /\ c_input.form_result.present
        /\ RowsOf(c_input.form_result.value) # <<>>)
        => LET rows == RowsOf(c_input.form_result.value)
               ls   == Lines(c_output)
           IN  /\ Len(ls) = Len(rows) + 1
               /\ ls[1] = PipeRow(rows[1])
               /\ Dashes(ls[2]) = 3 * Len(rows[1])
               /\ ls[2] = PipeRow([i \in 1..Len(rows[1]) |-> <<"-", "-", "-">>])
               /\ \A k \in 2..Len(rows) : ls[k + 1] = PipeRow(rows[k])
               /\ c_input.form_result.value = ExampleTable
                    => ls = << <<"|", Space, "A", Space, "|", Space, "B", Space, "|">>,
                               <<"|", Space, "-", "-", "-", Space, "|", Space,
                                 "-", "-", "-", Space, "|">>,
                               <<"|", Space, "1", Space, "|", Space, "2", Space, "|">>,
                               <<"|", Space, "3", Space, "|", Space, "4", Space, "|">> >>

C16_Witness ==
    /\ c_pc = "table"
    /\ c_input.form_result.present
    /\ c_input.form_result.value = ExampleTable
    /\ Len(Lines(c_output)) = 4

\* A table result without rows: no form_result, an empty one, or one whose
\* entries carry no 'row'.
NoRows(table_result) ==
    \/ ~table_result.form_result.present
    \/ RowsOf(table_result.form_result.value) = <<>>

\* C17 as stated: for a table result without rows convert_table_to_markdown
\* returns what convert_to_markdown returns for the same result.
C17_TableFallback ==
    (c_pc = "table" /\ NoRows(c_input))
        => c_output = convert_to_markdown(c_input)

\* C17 as amended: convert_table_to_markdown returns what convert_to_markdown
\* returns for the same result when the result has no 'form_result' key; when
\* the key is there and the list is empty or none of its entries carries a
\* 'row', it returns the empty string.
C17_FallbackWithoutKey ==
    (c_pc = "table" /\ NoRows(c_input))
        => c_output = IF c_input.form_result.present THEN <<>>
                      ELSE join(<<NL>>, RunLines(Get(c_input.words_result, <<>>), 1))

C17_Witness ==
    /\ c_pc = "table"
    /\ ~c_input.form_result.present
    /\ c_input.words_result.present
    /\ c_output # <<>>

\* An extension in lower case.
Lower(e) == CASE e \in {"JPG", "Jpg"} -> "jpg" [] OTHER -> e

\* The files of a directory whose extension is one of the five image
\* extensions, whatever the case of its letters.
ImagesOf(d) == { f \in d : \E i \in 1..Len(ImageExts) : Lower(f.ext) = ImageExts[i] }

\* C18: the list get_image_files returned holds every file of the directory
\* whose extension is an image extension under case-insensitive comparison,
\* each once, in sorted order, and no other file.
C18_Enumeration ==
    b_pc \in {"collect", "returned"}
        => /\ { image_files[i] : i \in 1..Len(image_files) } = ImagesOf(dir)
           /\ \A i, j \in 1..Len(image_files) :
                i < j => FileKey(image_files[i]) < FileKey(image_files[j])

\* ------------------------------------------------------- the entry points

\* What a run meets: the entry point started (main of main.py, after
\* parse_args and setup_logging, or main of the batch processor), whether the
\* input directory exists, whether the output directory can be made, whether
\* the token request of the constructor succeeds, and how each stage ends.
EntryInputs ==
    [entry        : {"main_py", "batch_main"},
     input_exists : BOOLEAN,
     mkdir_ok     : BOOLEAN,
     ctor_ok      : BOOLEAN,
     batch        : {"raises", "returns"},
     success      : 0..MaxFiles,
     failed       : 0..MaxFiles,
     reprocess    : {"raises", "no_files", "all_ok", "some_failed"},
     retry        : {"raises", "empty", "results"},
     report       : {"raises", "ok"}]

\* What process_batch returns to the entry point: the failure dict when
\* get_image_files finds nothing, final_stats otherwise.
BatchReturn ==
    IF get_image_files(dir) = <<>> THEN NoImages
    ELSE [kind |-> "stats", total_files |-> Len(get_image_files(dir)),
          success_count |-> e_input.success, failed_count |-> e_input.failed]

\* The except clauses of run_complete_ocr_pipeline: "return False" after the
\* batch stage, which main turns into 1; log and go on after the others.
OnStageError_Abort(stage) == "return 1"
OnStageError(stage) == IF stage = "batch" THEN "return 1" ELSE "continue"

\* "if stats['failed_count'] > 0:" before the reprocess stage.
NeedsReprocess_Always(st) == TRUE
NeedsReprocess(st) == st.failed_count > 0

InitMain ==
    /\ BatchIdle("off")
    /\ RetryOff
    /\ ConvOff
    /\ e_input \in EntryInputs
    /\ dir \in Directories
    /\ ~e_input.input_exists => dir = {}
    /\ e_input.success <= Len(get_image_files(dir))
    /\ e_input.failed <= Len(get_image_files(dir))
    /\ e_pc = IF e_input.entry = "main_py" THEN "start" ELSE "batch"
    /\ e_stages = <<>>
    /\ e_stats = NoStats
    /\ e_exit = "running"
    /\ FilesOff
    /\ FixOff

main_others == <<conv_vars, files_vars, fix_vars, hist_vars, fs_vars, tok_vars, now, batch_vars, w_vars, retry_vars>>

\* The run ends: main returns `code`, or an exception leaves it.
Exit(code) ==
    /\ e_exit' = code
    /\ e_pc' = "done"

\* main.py main: "if not input_path.exists(): ... return 1".
CheckInput ==
    /\ e_pc = "start"
    /\ IF e_input.input_exists
       THEN e_pc' = "mkdir" /\ UNCHANGED e_exit
       ELSE Exit("return 1")
    /\ UNCHANGED <<e_input, e_stages, e_stats, main_others>>

\* main.py main: output_path.mkdir(parents=True, exist_ok=True), unguarded.
MakeOutputDir ==
    /\ e_pc = "mkdir"
    /\ IF e_input.mkdir_ok
       THEN e_pc' = "batch" /\ UNCHANGED e_exit
       ELSE Exit("unhandled")
    /\ UNCHANGED <<e_input, e_stages, e_stats, main_others>>

\* The batch stage: the constructor and process_batch; in main.py inside
\* try/except together with the success_rate line, which raises KeyError on
\* the failure dict.
BatchStage ==
    /\ e_pc = "batch"
    /\ e_stages' = Append(e_stages, "batch")
    /\ LET raised == ~e_input.ctor_ok \/ e_input.batch = "raises" IN
       /\ e_stats' = IF raised THEN e_stats ELSE BatchReturn
       /\ IF e_input.entry = "main_py"
          THEN IF raised \/ BatchReturn.kind = "no_images"
               THEN Exit(OnStageError("batch"))
               ELSE /\ e_pc' = IF NeedsReprocess(BatchReturn)
                               THEN "reprocess" ELSE "report"
                    /\ UNCHANGED e_exit
          ELSE IF raised
               THEN Exit("unhandled")
               ELSE e_pc' = "report" /\ UNCHANGED e_exit
    /\ UNCHANGED <<e_input, main_others>>

\* What follows a stage that raised inside the try block of the later stages.
AfterError(stage) ==
    IF OnStageError(stage) = "continue"
    THEN e_pc' = "report" /\ UNCHANGED e_exit
    ELSE Exit(OnStageError(stage))

\* The reprocess stage of run_complete_ocr_pipeline: KeyError on the
\* {'success': False, ...} dict of process_all_failed_files is caught like
\* any exception.
ReprocessStage ==
    /\ e_pc = "reprocess"
    /\ e_stages' = Append(e_stages, "reprocess")
    /\ CASE e_input.reprocess \in {"raises", "no_files"} -> AfterError("reprocess")
         [] e_input.reprocess = "all_ok" -> e_pc' = "report" /\ UNCHANGED e_exit
         [] e_input.reprocess = "some_failed" -> e_pc' = "retry" /\ UNCHANGED e_exit
    /\ UNCHANGED <<e_input, e_stats, main_others>>

\* The retry stage, inside the same try block: ZeroDivisionError on an
\* empty result list is caught like any exception.
RetryStage ==
    /\ e_pc = "retry"
    /\ e_stages' = Append(e_stages, "retry")
    /\ IF e_input.retry \in {"raises", "empty"}
       THEN AfterError("retry")
       ELSE e_pc' = "report" /\ UNCHANGED e_exit
    /\ UNCHANGED <<e_input, e_stats, main_others>>

\* The report: generate_final_report inside try/except in main.py;
\* processor.generate_report(stats, output_dir) unguarded in the batch
\* processor's main, where stats['total_files'] raises KeyError on the
\* failure dict.
ReportStage ==
    /\ e_pc = "report"
    /\ e_stages' = Append(e_stages, "report")
    /\ IF e_input.entry = "main_py"
       THEN IF e_input.report = "ok" \/ OnStageError("report") = "continue"
            THEN Exit("return 0")
            ELSE Exit(OnStageError("report"))
       ELSE IF e_stats.kind = "no_images" \/ e_input.report = "raises"
            THEN Exit("unhandled")
            ELSE Exit("return 0")
    /\ UNCHANGED <<e_input, e_stats, main_others>>

NextMain ==
    \/ CheckInput
    \/ MakeOutputDir
    \/ BatchStage
    \/ ReprocessStage
    \/ RetryStage
    \/ ReportStage

SpecMain == InitMain /\ [][NextMain]_vars

\* C19: when the input directory holds no image and process_batch has
\* returned its failure result, the entry point that called it finishes
\* without an unhandled exception.
C19_NoImagesNoCrash ==
    (e_pc = "done" /\ e_stats.kind = "no_images") => e_exit # "unhandled"

\* C20: main of main.py returns 1 without starting a stage when the input
\* directory does not exist, and returns 0 whenever the batch stage returned
\* a summary, whatever the reprocess stage, the retry stage and the final
\* report do.
C20_ExitCode ==
    (e_input.entry = "main_py" /\ e_pc = "done")
        => /\ ~e_input.input_exists => (e_exit = "return 1" /\ e_stages = <<>>)
           /\ e_stats.kind = "stats" => e_exit = "return 0"

C20_Witness ==
    /\ e_input.entry = "main_py"
    /\ e_pc = "done"
    /\ e_stats.kind = "stats"
    /\ e_stages = <<"batch", "reprocess", "report">>
    /\ e_input.reprocess = "raises"
    /\ e_input.report = "raises"
    /\ e_exit = "return 0"

\* C21: when the token endpoint's response carries no token, the refresh
\* raises (the call returns failure), no recognition request is sent for
\* that call, and access_token and token_expires keep the values they had;
\* so, nothing else having replaced them, the next check finds the token
\* invalid again.
C21_RefreshFailure ==
    [][\A w \in Workers :
         (w_pc[w] = "refreshing" /\ task_class'[w_task[w]] = "auth")
            => /\ access_token' = access_token
               /\ token_expires' = token_expires
               /\ w_pc'[w] = "load"
               /\ ~w_ok'[w]
               /\ max_workers = 1
                    => (access_token' = NoToken \/ now' > token_expires')]_vars

\* A refresh failed for lack of a token while an expired token was held.
C21_Witness ==
    \E w \in Workers :
        /\ w_pc[w] = "load"
        /\ task_class[w_task[w]] = "auth"
        /\ access_token # NoToken
        /\ now > token_expires

\* C22: a recognition request is sent only after the check of this call
\* found a token that was not past its expiry, or after a refresh of this
\* call stored one; never without a token.
C22_TokenValidBeforeRequest ==
    [][\A w \in Workers :
         /\ (w_pc'[w] = "post" /\ w_pc[w] # "post")
              => \/ /\ w_pc[w] = "call"
                    /\ access_token # NoToken
                    /\ now <= token_expires
                 \/ /\ w_pc[w] = "refreshing"
                    /\ access_token' # NoToken
                    /\ now' <= token_expires'
         /\ w_pc[w] = "post" => access_token # NoToken]_vars

\* A request is about to be sent, at the latest reading of the clock, with a
\* token that is not past its expiry.
C22_Witness ==
    \E w \in Workers :
        /\ w_pc[w] = "post"
        /\ now = MaxTime
        /\ token_expires >= now
        /\ batches = 1

\* C23: the credential is created lazily: no token is requested, so none is
\* held, before the first recognition call.
C23_LazyCredential ==
    (batches = 0 /\ b_pc \in {"new", "ready", "ctor_failed"}) => access_token = NoToken

\* C24: process_single_image writes the artifact and returns success exactly
\* when the content is not empty; on empty content or an error it returns
\* failure and leaves the file at the artifact path as it was.  A successful
\* outcome of process_single_image_safe carries the counts of the content
\* persisted for its own task, which are not zero.
C24_PersistenceFollowsOutcome ==
    [][/\ \A w \in Workers :
            (w_pc[w] = "post" /\ w_pc'[w] # "post")
               => /\ w_ok'[w] <=> task_class'[w_task[w]] = "ok"
                  /\ w_ok'[w] => out_fs'[output_files[w_task[w]]] = image_files[w_task[w]]
                  /\ ~w_ok'[w] => out_fs' = out_fs
       /\ \A i \in 1..Len(fut) :
            (fut[i].state = "done" /\ fut[i].result.success)
               => /\ fut[i].result.content # NoFile
                  /\ fut[i].result.content = image_files[i]]_vars

\* The threads of the pool are scheduled: a worker that can take a step
\* takes one.
SpecFair == Spec /\ \A w \in Workers : WF_vars(WorkerStep(w))

RunningTasks == { i \in 1..Len(fut) : fut[i].state = "running" }
BusyWorkers  == { w \in Workers : w_pc[w] # "idle" }

\* C25: at every moment of process_batch at most max_workers images are
\* being processed, each by one worker that holds this one image, no image
\* is processed twice, and every submitted image is processed in the end.
C25_PoolBound ==
    /\ [](/\ Cardinality(RunningTasks) <= max_workers
          /\ \A w \in BusyWorkers : w <= max_workers /\ w_task[w] \in RunningTasks
          /\ \A i \in RunningTasks : Cardinality({ w \in BusyWorkers : w_task[w] = i }) = 1
          /\ \A i \in 1..Len(fut) :
               /\ task_calls[i] <= 1
               /\ fut[i].state \in {"done", "collected"} => task_calls[i] = 1)
    /\ \A i \in 1..MaxFiles :
         (Len(fut) >= i /\ fut[i].state = "queued")
            ~> (Len(fut) >= i /\ fut[i].state = "done")

\* One image waits in the queue while the only worker of the pool is busy.
C25_Witness ==
    /\ max_workers = 1
    /\ Cardinality(RunningTasks) = 1
    /\ QueuedTasks # {}
    /\ w_pc[1] = "post"

\* ------------------------------------------------------ retry_failed_files

\* Longest failed_files list.
MaxNames == 2

\* The names a failed_files list may hold, and the files of input_dir.
RetryNames == {File(1, "jpg"), File(2, "JPG")}

\* The state after RetryFailedFiles.__init__ got its token: either
\* process_with_retry is called directly (rf_pc "off") or retry_failed_files
\* is called on a list of names.
InitRetryFiles ==
    /\ dir \in SUBSET RetryNames
    /\ out_fs = [p \in Paths |-> NoFile]
    /\ access_token = "token"
    /\ token_expires \in { ExpiryFor(0, resp) : resp \in { r \in TokenResponses : r.kind = "token" } }
    /\ now = 0
    /\ b_pc = "off"
    /\ batches = 0
    /\ max_workers = 0
    /\ image_files = <<>>
    /\ output_files = <<>>
    /\ fut = <<>>
    /\ results = <<>>
    /\ processed_count = 0
    /\ success_count = 0
    /\ failed_count = 0
    /\ final_stats = NoStats
    /\ snapshot = NoSnapshot
    /\ w_pc = IdleWorkers
    /\ w_task = [w \in Workers |-> 0]
    /\ w_ok = [w \in Workers |-> FALSE]
    /\ w_reg = [w \in Workers |-> 0]
    /\ w_content = [w \in Workers |-> NoFile]
    /\ task_class = <<>>
    /\ task_calls = <<>>
    /\ prev_stats = NoStats
    /\ r_pc = "ready"
    /\ max_retries = 0
    /\ r_image = NoFile
    /\ attempt = 0
    /\ delays = <<>>
    /\ att_kinds = <<>>
    /\ r_result = NoResult
    /\ stats = [total_processed |-> 0, success_count |-> 0, failed_count |-> 0]
    /\ ConvOff
    /\ MainOff
    /\ rf_pc \in {"off", "loop"}
    /\ rf_names \in { names \in SeqsUpTo(RetryNames, MaxNames) :
                         \A i, j \in 1..Len(names) : names[i] = names[j] => i = j }
    /\ rf_pc = "off" => rf_names = <<>>
    /\ rf_i = IF rf_pc = "off" THEN 0 ELSE 1
    /\ rf_results = <<>>
    /\ rf_exit = "running"
    /\ FixOff

files_others == <<conv_vars, main_vars, fix_vars, hist_vars, fs_vars, tok_vars, now, batch_vars, w_vars>>

\* process_with_retry called directly, with any max_retries.
DirectCall(f, mr) ==
    /\ rf_pc = "off"
    /\ RetryCall(f, mr)

\* A round of the loop of retry_failed_files on a name that is not a file of
\* input_dir: "continue".
FilesSkip ==
    /\ rf_pc = "loop"
    /\ r_pc = "ready"
    /\ rf_i <= Len(rf_names)
    /\ rf_names[rf_i] \notin dir
    /\ rf_i' = rf_i + 1
    /\ UNCHANGED <<rf_pc, rf_names, rf_results, rf_exit, retry_vars, files_others>>

\* A round on an existing file: process_with_retry with the default
\* max_retries.
FilesCall ==
    /\ rf_pc = "loop"
    /\ rf_i <= Len(rf_names)
    /\ RetryCall(rf_names[rf_i], DefaultMaxRetries)

\* The rest of the round: the result is appended and counted.
FilesCollect ==
    /\ rf_pc = "loop"
    /\ r_pc = "returned"
    /\ rf_results' = Append(rf_results, r_result)
    /\ stats' = [stats EXCEPT !.total_processed = @ + 1]
    /\ rf_i' = rf_i + 1
    /\ r_pc' = "ready"
    /\ r_result' = NoResult
    /\ delays' = <<>>
    /\ att_kinds' = <<>>
    /\ UNCHANGED <<rf_pc, rf_names, rf_exit, max_retries, r_image, attempt, files_others>>

\* "success_count / total_processed * 100" in generate_retry_report raises
\* ZeroDivisionError when nothing was processed.
RateRaises(st) == st.total_processed = 0

\* After the loop: generate_retry_report, the statistics, "return results".
FilesReport ==
    /\ rf_pc = "loop"
    /\ r_pc = "ready"
    /\ rf_i > Len(rf_names)
    /\ rf_pc' = "done"
    /\ rf_exit' = IF RateRaises(stats) THEN "ZeroDivisionError" ELSE "returned"
    /\ UNCHANGED <<rf_names, rf_i, rf_results, retry_vars, files_others>>

NextRetryFiles ==
    \/ \E f \in RetryNames, mr \in 0..MaxRetriesBound : DirectCall(f, mr)
    \/ FilesSkip
    \/ FilesCall
    \/ RetryAttempt
    \/ RetryFallThrough
    \/ FilesCollect
    \/ FilesReport

SpecRetryFiles == InitRetryFiles /\ [][NextRetryFiles]_vars

\* The sum of the two outcome counters of the retry statistics.
Counted(st) == st.success_count + st.failed_count

\* C26: with max_retries >= 1 process_with_retry makes at most max_retries
\* attempts and none after a successful one, returns a dict, and adds one to
\* exactly one of success_count and failed_count, once, when it returns; so
\* between the rounds of retry_failed_files success_count + failed_count =
\* total_processed.
C26_RetryTerminates ==
    [][/\ (r_pc \in {"loop", "returned"} /\ max_retries >= 1)
            => /\ Len(att_kinds) <= max_retries
               /\ \A j \in 1..(Len(att_kinds) - 1) : att_kinds[j] # "ok"
               /\ r_pc = "returned" => r_result.returned = "dict"
       /\ (r_pc = "loop" /\ max_retries >= 1)
            => IF r_pc' = "returned"
               THEN /\ Counted(stats') = Counted(stats) + 1
                    /\ stats'.success_count = stats.success_count + 1
                         <=> r_result'.success
                    /\ r_result'.success <=> att_kinds'[Len(att_kinds')] = "ok"
               ELSE stats' = stats
       /\ (rf_pc = "loop" /\ r_pc = "ready")
            => Counted(stats) = stats.total_processed]_vars

\* retry_failed_files has handled two files, one with success after a
\* failed attempt and one without success.
C26_Witness ==
    /\ rf_pc = "loop"
    /\ r_pc = "ready"
    /\ stats = [total_processed |-> 2, success_count |-> 1, failed_count |-> 1]
    /\ \E k \in 1..2 : rf_results[k].success /\ rf_results[k].retries = 1

\* C28: retry_failed_files returns its list of outcomes without raising,
\* whatever the list of names.
C28_RetryFilesReturns ==
    rf_pc = "done" => rf_exit = "returned"

\* --------------------------------------------- the progress lines of a call

\* How many results a call over a large directory has collected before the
\* part of it that is followed here.
EarlierResults == {8, 9}

\* A process_batch call over more than SnapshotEvery images, late in its
\* collect loop: the results of the earlier images are collected, each
\* counted once, and the images of `dir` are the ones still queued
\* (image_files, output_files, fut and results hold this rest of the call).
InitSnapshot ==
    /\ dir \in { d \in Directories : Len(get_image_files(d)) = MaxFiles }
    /\ out_fs = [p \in Paths |-> NoFile]
    /\ access_token = "token"
    /\ token_expires \in { ExpiryFor(0, resp) : resp \in { r \in TokenResponses : r.kind = "token" } }
    /\ now = 0
    /\ b_pc = "collect"
    /\ batches = 0
    /\ max_workers \in 1..MaxWorkers
    /\ image_files = get_image_files(dir)
    /\ output_files = output_files_of(image_files)
    /\ fut = [i \in 1..Len(image_files) |-> Queued]
    /\ results = <<>>
    /\ processed_count \in EarlierResults
    /\ failed_count \in 0..1
    /\ success_count = processed_count - failed_count
    /\ final_stats = NoStats
    /\ snapshot = NoSnapshot
    /\ w_pc = IdleWorkers
    /\ w_task = [w \in Workers |-> 0]
    /\ w_ok = [w \in Workers |-> FALSE]
    /\ w_reg = [w \in Workers |-> 0]
    /\ w_content = [w \in Workers |-> NoFile]
    /\ RetryOff
    /\ task_class = [i \in 1..Len(image_files) |-> "none"]
    /\ task_calls = [i \in 1..Len(image_files) |-> 0]
    /\ prev_stats = NoStats
    /\ ConvOff
    /\ MainOff
    /\ FilesOff
    /\ FixOff

\* The collect loop and the pool's threads.
NextSnapshot ==
    \/ Tick
    \/ \E i \in 1..MaxFiles : Collect(i)
    \/ \E w \in Workers : WorkerStep(w)

SpecSnapshot == InitSnapshot /\ [][NextSnapshot]_vars

\* C27: in every progress line success_count + failed_count equals
\* processed_count, so success_count is at most processed_count and the
\* printed success rate at most 100%.
C27_SnapshotConsistent ==
    snapshot # NoSnapshot
        => /\ snapshot.success + snapshot.failed = snapshot.processed
           /\ snapshot.success <= snapshot.processed

\* C29: in run_complete_ocr_pipeline the reprocess stage starts only right
\* after a batch stage that returned a summary with failed_count > 0; the
\* retry stage starts only right after a reprocess stage that returned a
\* summary with failed_count > 0; the final report is the last stage, and it
\* is attempted in every finished run whose batch stage returned a summary,
\* with main returning 0, also when the reprocess or the retry stage raised.
C29_StageOrdering ==
    e_input.entry = "main_py"
        => /\ \A k \in 1..Len(e_stages) :
                /\ e_stages[k] = "batch" => k = 1
                /\ e_stages[k] = "reprocess"
                     => /\ k = 2
                        /\ e_stats.kind = "stats"
                        /\ e_stats.failed_count > 0
                /\ e_stages[k] = "retry"
                     => /\ k = 3
                        /\ e_stages[2] = "reprocess"
                        /\ e_input.reprocess = "some_failed"
                /\ e_stages[k] = "report"
                     => /\ k = Len(e_stages)
                        /\ e_stats.kind = "stats"
           /\ (e_pc = "done" /\ e_stats.kind = "stats")
                => /\ e_stages[Len(e_stages)] = "report"
                   /\ e_exit = "return 0"

\* A finished run in which all four stages started and the retry stage
\* raised.
C29_Witness ==
    /\ e_input.entry = "main_py"
    /\ e_pc = "done"
    /\ e_stages = <<"batch", "reprocess", "retry", "report">>
    /\ e_input.retry = "raises"
    /\ e_exit = "return 0"

\* ------------------------------ AllFailedFilesProcessor.check_and_fix_image

\* "width > 4096 or height > 4096" and the box of thumbnail().
MaxSide == 4096

\* range(95, 60, -5): the qualities tried, from the first to the last.
FirstQuality == 95
LastQuality == 65
QualityStep == 5

\* The sides of the images handed to check_and_fix_image.
Sides == {1, 9, 4096, 5000}

Formats == {"JPEG", "PNG", "BMP", "TIFF"}

\* An image file: whether Image.open reads it, its size in pixels, whether
\* the file is larger than 4 * 1024 * 1024 bytes, its format, and whether
\* its mode can be written as JPEG.
Images ==
    [openable : BOOLEAN, width : Sides, height : Sides, oversize : BOOLEAN,
     format : Formats, jpeg_ok : BOOLEAN]

\* The issues check_and_fix_image finds.
Issues(img) ==
    (IF img.oversize THEN {"file_size"} ELSE {})
      \cup (IF img.width > MaxSide \/ img.height > MaxSide THEN {"dimension"} ELSE {})
      \cup (IF img.format \notin {"JPEG", "PNG", "BMP"} THEN {"format"} ELSE {})

Max(a, b) == IF a >= b THEN a ELSE b

\* The sizes thumbnail((4096, 4096)) may leave: the longer side becomes
\* MaxSide and the other keeps the aspect ratio, rounded down or up, at
\* least 1; an image inside the box is left alone.
Scaled(n, longer) ==
    { Max(1, (n * MaxSide) \div longer),
      Max(1, (n * MaxSide + longer - 1) \div longer) }
thumbnail(w, h) ==
    IF w <= MaxSide /\ h <= MaxSide THEN { <<w, h>> }
    ELSE IF w >= h THEN { <<MaxSide, y>> : y \in Scaled(h, w) }
    ELSE { <<x, MaxSide>> : x \in Scaled(w, h) }

\* int(current_width * 0.9).
Shrink_Keep(n) == n
Shrink(n) == (n * 9) \div 10

\* What one save of temp_img as JPEG leaves on disk: a file of at most
\* 4 MB or a larger one.
SavedSizes == {"small", "large"}

\* The condition of the while: the size of temp_path + '.temp2' when that
\* file exists, True otherwise.
WhileCondition(probe) == IF probe # "absent" THEN probe = "large" ELSE TRUE

InitFix ==
    /\ dir = {}
    /\ BatchIdle("off")
    /\ RetryOff
    /\ ConvOff
    /\ MainOff
    /\ FilesOff
    /\ x_pc = "open"
    /\ x_img \in Images
    /\ x_w = 0
    /\ x_h = 0
    /\ x_quality = 0
    /\ x_out \in {"absent", "old"}
    /\ x_probe = "absent"
    /\ x_stats = [size_fixed |-> 0, format_fixed |-> 0, errors |-> 0]
    /\ x_result = NoFixResult

fix_others == <<conv_vars, main_vars, files_vars, hist_vars, fs_vars, tok_vars, now,
                batch_vars, w_vars, retry_vars>>

\* "return True, msg".
FixReturn(msg) ==
    /\ x_result' = [ok |-> TRUE, msg |-> msg]
    /\ x_pc' = "done"

\* "except Exception as e: ... self.stats['errors'] += 1; return False, str(e)".
FixRaise(msg) ==
    /\ x_result' = [ok |-> FALSE, msg |-> msg]
    /\ x_stats' = [x_stats EXCEPT !.errors = @ + 1]
    /\ x_pc' = "done"

\* Lines 36-76 and 110-116: open, find the issues, copy when there is none,
\* thumbnail on a dimension issue, and save directly when the file size is
\* no issue.
FixOpen ==
    /\ x_pc = "open"
    /\ IF ~x_img.openable
       THEN /\ FixRaise("cannot identify image file")
            /\ UNCHANGED <<x_w, x_h, x_quality, x_out>>
       ELSE IF Issues(x_img) = {}
       THEN /\ FixReturn("no_fix_needed")
            /\ x_out' = "small"
            /\ UNCHANGED <<x_w, x_h, x_quality, x_stats>>
       ELSE \E size \in thumbnail(x_img.width, x_img.height), saved \in SavedSizes :
              LET sized == [x_stats EXCEPT !.size_fixed =
                               IF "dimension" \in Issues(x_img) THEN @ + 1 ELSE @] IN
              /\ x_w' = size[1]
              /\ x_h' = size[2]
              /\ IF "file_size" \in Issues(x_img)
                 THEN /\ x_pc' = "quality"
                      /\ x_quality' = FirstQuality
                      /\ x_stats' = sized
                      /\ UNCHANGED <<x_out, x_result>>
                 ELSE IF x_img.jpeg_ok
                 THEN /\ FixReturn("fixed")
                      /\ x_out' = saved
                      /\ x_stats' = [sized EXCEPT !.format_fixed =
                                        IF "format" \in Issues(x_img) THEN @ + 1 ELSE @]
                      /\ UNCHANGED x_quality
                 ELSE /\ x_result' = [ok |-> FALSE, msg |-> "cannot write mode as JPEG"]
                      /\ x_stats' = [sized EXCEPT !.errors = @ + 1]
                      /\ x_pc' = "done"
                      /\ UNCHANGED <<x_quality, x_out>>
    /\ UNCHANGED <<x_img, x_probe, fix_others>>

\* The quality after `q` in range(95, 60, -5), and whether there is one.
HasNextQuality(q) == q - QualityStep >= LastQuality

\* Lines 81-91: one round of the first for loop: save at the quality, keep
\* the file when it is small enough, remove it otherwise.
FixQuality ==
    /\ x_pc = "quality"
    /\ IF ~x_img.jpeg_ok
       THEN /\ FixRaise("cannot write mode as JPEG")
            /\ UNCHANGED <<x_quality, x_out>>
       ELSE \E saved \in SavedSizes :
              IF saved = "small"
              THEN /\ FixReturn("size_fixed")
                   /\ x_out' = "small"
                   /\ x_stats' = [x_stats EXCEPT !.size_fixed = @ + 1]
                   /\ UNCHANGED x_quality
              ELSE /\ IF HasNextQuality(x_quality)
                      THEN x_quality' = x_quality - QualityStep /\ x_pc' = "quality"
                      ELSE x_quality' = x_quality /\ x_pc' = "while"
                   /\ UNCHANGED <<x_out, x_stats, x_result>>
    /\ UNCHANGED <<x_img, x_w, x_h, x_probe, fix_others>>

\* Lines 95-98: the test of the while and the resize to 0.9 of both sides;
\* resize raises ValueError on a side of 0. When the test fails the call
\* ends at line 116.
FixWhile ==
    /\ x_pc = "while"
    /\ IF ~WhileCondition(x_probe)
       THEN /\ FixReturn("fixed")
            /\ UNCHANGED <<x_w, x_h, x_quality, x_stats>>
       ELSE /\ x_w' = Shrink(x_w)
            /\ x_h' = Shrink(x_h)
            /\ IF Shrink(x_w) = 0 \/ Shrink(x_h) = 0
               THEN /\ FixRaise("height and width must be > 0")
                    /\ UNCHANGED x_quality
               ELSE /\ x_pc' = "shrunk_quality"
                    /\ x_quality' = FirstQuality
                    /\ UNCHANGED <<x_stats, x_result>>
    /\ UNCHANGED <<x_img, x_out, x_probe, fix_others>>

\* Lines 100-108: one round of the for loop inside the while: save the
\* shrunk image as output_path + '.temp2', rename it to output_path when it
\* is small enough, remove it otherwise.
FixShrunkQuality ==
    /\ x_pc = "shrunk_quality"
    /\ \E saved \in SavedSizes :
         IF saved = "small"
         THEN /\ FixReturn("size_compressed")
              /\ x_out' = "small"
              /\ UNCHANGED x_quality
         ELSE /\ IF HasNextQuality(x_quality)
                 THEN x_quality' = x_quality - QualityStep /\ x_pc' = "shrunk_quality"
                 ELSE x_quality' = x_quality /\ x_pc' = "while"
              /\ UNCHANGED <<x_out, x_result>>
    /\ UNCHANGED <<x_img, x_w, x_h, x_probe, x_stats, fix_others>>

NextFix ==
    \/ FixOpen
    \/ FixQuality
    \/ FixWhile
    \/ FixShrunkQuality

\* The call runs on one thread: it takes its next step as long as it has one.
SpecFix == InitFix /\ [][NextFix]_vars /\ WF_vars(NextFix)

\* C30: check_and_fix_image terminates on an image whose file is over the
\* limit at every quality of the first loop: each round of the while makes
\* both sides smaller, the call leaves the loops either with a file of at
\* most 4 MB at output_path and a success result or with a failure result
\* that leaves output_path alone, and a call that has entered the while
\* returns.
C30_ShrinkTerminates ==
    /\ [][/\ (x_pc = "while" /\ x_pc' = "shrunk_quality")
               => /\ x_w' < x_w /\ x_h' < x_h
                  /\ x_w' >= 1 /\ x_h' >= 1
          /\ (x_pc \in {"while", "shrunk_quality"} /\ x_pc' = "done")
               => \/ /\ x_result'.ok
                     /\ x_result'.msg = "size_compressed"
                     /\ x_out' = "small"
                  \/ /\ ~x_result'.ok
                     /\ x_result'.msg # "none"
                     /\ x_out' = x_out]_vars
    /\ (x_pc = "while") ~> (x_pc = "done")

\* A call that returned success after two or more rounds of the while.
C30_Witness ==
    /\ x_pc = "done"
    /\ x_result = [ok |-> TRUE, msg |-> "size_compressed"]
    /\ x_img.width = MaxSide
    /\ x_w < Shrink(Shrink(MaxSide))
    /\ x_out = "small"

====
